---- MODULE Spec2Model ----
(***************************************************************************)
(* A model of the ingestion pipeline of lea4n-be: the chunker              *)
(* (chunking.service.ts) and the file processor                            *)
(* (file-processor.service.ts) over the File, FileChunk and FileEmbedding  *)
(* tables.  Every await of the code is a step of the model: the database   *)
(* or backend call takes effect and the synchronous code up to the next    *)
(* await runs in the same step.  After the pipeline come retrieval         *)
(* (rag.service.ts), the memory store (memory.service.ts), the validation  *)
(* of extracted memories (ai.service.ts), the embedding calls              *)
(* (embedding.service.ts), the message flows (message.service.ts) and a    *)
(* retrieval during the pipeline's runs, each with a specification of its  *)
(* own.                                                                    *)
(***************************************************************************)
EXTENDS Integers, Sequences, FiniteSets, TLC

VARIABLES
    fileText,        \* file id -> the text its extraction yields
    status,          \* File.processStatus
    chunkCount,      \* File.chunkCount
    fileChunks,      \* the FileChunk rows
    fileEmbeddings,  \* the FileEmbedding rows
    run,             \* run id -> one processFile invocation
    tasks,           \* the callbacks of Promise.all still in flight
    faults,          \* failures of a database or backend call so far
    batch,           \* call id -> one processSubjectFiles invocation
    call,            \* the call of a pure function being evaluated
    ret,             \* its result, or the result of the last memory operation
    subjectMemory,   \* the SubjectMemory rows
    now,             \* the clock
    nextMemoryId,    \* the id the next SubjectMemory row gets
    turn,            \* the message flow of one request
    extraction       \* the memory extraction that flow started

vars == <<fileText, status, chunkCount, fileChunks, fileEmbeddings, run,
          tasks, faults, batch, call, ret,
          subjectMemory, now, nextMemoryId, turn, extraction>>

memoryVars == <<subjectMemory, now, nextMemoryId, turn, extraction>>

pipelineVars == <<fileText, status, chunkCount, fileChunks, fileEmbeddings,
                  run, tasks, faults, batch>>

(***************************************************************************)
(* Bounds of the model.                                                    *)
(***************************************************************************)
\* processFile invocations in one behaviour
MaxRuns == 2
\* processSubjectFiles invocations in one behaviour
MaxBatchCalls == 1
\* database or backend calls that fail in one behaviour
MaxFaults == 1
\* token sequences given to chunkText have at most this many tokens
MaxTokens == 6
\* chunkSize and chunkOverlap given to chunkText range up to this
MaxChunkArg == 4

(***************************************************************************)
(* Constants of the program.                                               *)
(***************************************************************************)
\* the chunkSize processFile passes to semanticChunking
PipelineChunkSize == 500
\* the chunkOverlap processFile passes to semanticChunking
PipelineChunkOverlap == 50
\* the rough characters-per-token estimate of semanticChunking
CharsPerToken == 4
\* Fragments embedded and persisted per batch.  The program's value is 10;
\* the model keeps a text of three chunks and a batch of two, so that a run
\* still spans a full batch and a last, partial one.
batchSize == 2

Min(a, b) == IF a < b THEN a ELSE b
Max(a, b) == IF a > b THEN a ELSE b

(***************************************************************************)
(* The chunker.  A token is a number; a string is its length in characters *)
(* and its token sequence (what encoding.encode returns for it).           *)
(***************************************************************************)

\* faulty variant: the end of the slice taken as inclusive of nothing before it
SliceShort(tokens, start, end) == SubSeq(tokens, start + 1, end - 1)

\* tokens.slice(start, end)
Slice(tokens, start, end) == SubSeq(tokens, start + 1, end)

\* faulty variant: the loop has no break and steps on by at least one token
RECURSIVE ChunkLoopNoBreak(_, _, _, _, _, _)
ChunkLoopNoBreak(tokens, chunkSize, chunkOverlap, start, index, chunks) ==
    IF start < Len(tokens)
    THEN LET end == Min(start + chunkSize, Len(tokens))
             chunkTokens == Slice(tokens, start, end)
         IN  ChunkLoopNoBreak(tokens, chunkSize, chunkOverlap,
                              start + Max(chunkSize - chunkOverlap, 1), index + 1,
                              Append(chunks,
                                  [content |-> chunkTokens,
                                   index |-> index,
                                   metadata |-> [tokenCount |-> Len(chunkTokens)]]))
    ELSE chunks

\* the while loop of chunkText
RECURSIVE ChunkLoop(_, _, _, _, _, _)
ChunkLoop(tokens, chunkSize, chunkOverlap, start, index, chunks) ==
    IF start < Len(tokens)
    THEN LET end == Min(start + chunkSize, Len(tokens))
             chunkTokens == Slice(tokens, start, end)
             pushed == Append(chunks,
                          [content |-> chunkTokens,
                           index |-> index,
                           metadata |-> [tokenCount |-> Len(chunkTokens)]])
         IN  IF chunkSize <= chunkOverlap
             THEN pushed
             ELSE ChunkLoop(tokens, chunkSize, chunkOverlap,
                            start + (chunkSize - chunkOverlap), index + 1, pushed)
    ELSE chunks

\* faulty variant: the first chunk has index 1
chunkTextFromOne(tokens, chunkSize, chunkOverlap) ==
    ChunkLoop(tokens, chunkSize, chunkOverlap, 0, 1, <<>>)

chunkText(tokens, chunkSize, chunkOverlap) ==
    ChunkLoop(tokens, chunkSize, chunkOverlap, 0, 0, <<>>)

\* a buffer or paragraph is non-empty (a truthy JavaScript string)
Truthy(str) == str.chars > 0

\* the "\n\n" that joins two paragraphs of a buffer, as a token
Separator == <<0, 0>>

\* currentChunk += (currentChunk ? '\n\n' : '') + para
Joined(currentChunk, para) ==
    IF Truthy(currentChunk)
    THEN [chars |-> currentChunk.chars + 2 + para.chars,
          tokens |-> currentChunk.tokens \o <<Separator>> \o para.tokens]
    ELSE para

\* text.split(/\n\s*\n/): paragraph k with its own tokens <<k, 1>>, <<k, 2>>, ...
Paragraphs(text) ==
    [k \in 1..Len(text) |->
        [chars |-> text[k].chars,
         tokens |-> [j \in 1..text[k].tokens |-> <<k, j>>]]]

SemanticChunk(currentChunk, index) ==
    [content |-> currentChunk.tokens, index |-> index,
     metadata |-> [type |-> "semantic"]]

\* the for loop of semanticChunking and the push that follows it
RECURSIVE ParagraphLoop(_, _, _, _, _, _)
ParagraphLoop(paragraphs, k, chunkSize, currentChunk, index, chunks) ==
    IF k > Len(paragraphs)
    THEN IF Truthy(currentChunk)
         THEN Append(chunks, SemanticChunk(currentChunk, index))
         ELSE chunks
    ELSE LET para == paragraphs[k]
         IN  IF currentChunk.chars + para.chars < chunkSize * CharsPerToken
             THEN ParagraphLoop(paragraphs, k + 1, chunkSize,
                                Joined(currentChunk, para), index, chunks)
             ELSE IF Truthy(currentChunk)
                  THEN ParagraphLoop(paragraphs, k + 1, chunkSize, para, index + 1,
                                     Append(chunks, SemanticChunk(currentChunk, index)))
                  ELSE ParagraphLoop(paragraphs, k + 1, chunkSize, para, index, chunks)

\* the callback of the flatMap: a buffer over chunkSize tokens is sub-chunked
SubChunk(c, chunkSize, chunkOverlap) ==
    IF Len(c.content) > chunkSize
    THEN chunkText(c.content, chunkSize, chunkOverlap)
    ELSE <<c>>

RECURSIVE FlatMap(_, _, _, _)
FlatMap(chunks, k, chunkSize, chunkOverlap) ==
    IF k > Len(chunks)
    THEN <<>>
    ELSE SubChunk(chunks[k], chunkSize, chunkOverlap)
            \o FlatMap(chunks, k + 1, chunkSize, chunkOverlap)

semanticChunking(text, chunkSize, chunkOverlap) ==
    FlatMap(ParagraphLoop(Paragraphs(text), 1, chunkSize,
                          [chars |-> 0, tokens |-> <<>>], 0, <<>>),
            1, chunkSize, chunkOverlap)

(***************************************************************************)
(* The texts a file's extraction can yield: a sequence of paragraphs, each *)
(* with its length in characters, its number of tokens and whether it is   *)
(* whitespace only.                                                        *)
(***************************************************************************)
ParaEmpty == [chars |-> 0, tokens |-> 0, ws |-> TRUE]
ParaBlank == [chars |-> 3, tokens |-> 1, ws |-> TRUE]
ParaShort == [chars |-> 400, tokens |-> 100, ws |-> FALSE]
ParaHalf == [chars |-> 1200, tokens |-> 300, ws |-> FALSE]
ParaLong == [chars |-> 2400, tokens |-> 600, ws |-> FALSE]

Texts ==
    { <<ParaEmpty>>,                      \* ""
      <<ParaBlank>>,                      \* whitespace only
      <<ParaShort>>,                      \* one buffer, one chunk
      <<ParaHalf, ParaHalf, ParaHalf>>,   \* three buffers, three chunks
      <<ParaShort, ParaLong>> }           \* the second buffer is sub-chunked

\* faulty variant: the empty check without the trim
IsBlankNoTrim(text) == \A k \in 1..Len(text) : text[k].chars = 0

\* !extractionResult.text || extractionResult.text.trim().length === 0
IsBlank(text) == \A k \in 1..Len(text) : text[k].ws

\* const chunks = chunkingService.semanticChunking(text, {500, 50})
ChunkTable ==
    [t \in Texts |-> semanticChunking(t, PipelineChunkSize, PipelineChunkOverlap)]

(***************************************************************************)
(* The file processor.                                                     *)
(***************************************************************************)
\* the File rows, all of subject "s1"; "f0" is an id with no File row
Files == {"f1", "f2"}
FileIds == Files \cup {"f0"}
Subjects == {"s1", "s2"}
subjectId(f) == "s1"

RunIds == 1..MaxRuns
BatchIds == 1..MaxBatchCalls

IdleRun ==
    [pc |-> "idle", fileId |-> "f0", caller |-> 0, i |-> 0,
     caught |-> FALSE, logged |-> FALSE]
IdleBatch == [pc |-> "idle", subjectId |-> "s1", files |-> <<>>, idx |-> 0, cur |-> 0]
NoCall == [op |-> "none"]

NoResult == [done |-> FALSE]

\* the texts of the two files: any text for "f1", a one-chunk text for "f2"
InitialTexts == {t \in [Files -> Texts] : t["f2"] = <<ParaShort>>}

\* the files as uploaded: PENDING, no chunk stored, chunkCount 0
\* no request was made yet: the memory table is empty
IdleTurn ==
    [mode |-> "none", pc |-> "idle", sent |-> <<>>, ended |-> FALSE, outcome |-> "none",
     stream |-> <<>>, closed |-> FALSE, late |-> <<>>]
IdleExtraction == [pc |-> "idle", failed |-> FALSE, extracted |-> <<>>, before |-> {}]
NoTurns ==
    /\ subjectMemory = {}
    /\ now = 0
    /\ nextMemoryId = 1
    /\ turn = IdleTurn
    /\ extraction = IdleExtraction

Uploaded(texts) ==
    /\ fileText = texts
    /\ status = [f \in Files |-> "PENDING"]
    /\ chunkCount = [f \in Files |-> 0]
    /\ fileChunks = {}
    /\ fileEmbeddings = {}
    /\ run = [r \in RunIds |-> IdleRun]
    /\ tasks = {}
    /\ faults = 0
    /\ batch = [b \in BatchIds |-> IdleBatch]

Init ==
    /\ \E texts \in InitialTexts : Uploaded(texts)
    /\ call = NoCall
    /\ ret = NoResult
    /\ NoTurns

\* the chunks of run r: const chunks = semanticChunking(extractionResult.text, ...)
Chunks(r) == ChunkTable[fileText[run[r].fileId]]

\* a database or backend call may throw
MayFail == faults < MaxFaults

\* the invocations not yet made are numbered in order
CanStart == \E r \in RunIds : run[r].pc = "idle"
NextRunId == CHOOSE r \in RunIds :
                /\ run[r].pc = "idle"
                /\ \A q \in RunIds : q < r => run[q].pc # "idle"

\* processFile(fileId) is called: it runs up to its first await, findUnique
Started(r, f, c) ==
    [run EXCEPT ![r] = [pc |-> "findUnique", fileId |-> f, caller |-> c, i |-> 0,
                        caught |-> FALSE, logged |-> FALSE]]

\* faulty variant: a catch block that only logs
CaughtOnlyLogs(r) == [run EXCEPT ![r].pc = "returned", ![r].caught = TRUE]

\* an exception inside the try block enters the catch, which issues the FAILED write
Caught(r) == [run EXCEPT ![r].pc = "markFailed", ![r].caught = TRUE]

\* faulty variant: the FAILED write awaited without a .catch
OnFailedWriteErrorRethrown == "raised"

\* the FAILED write rejected: .catch(e => console.error(...)) and the run returns
OnFailedWriteError == "returned"

\* a caller invokes processFile(f)
ProcessFile(f) ==
    /\ CanStart
    /\ run' = Started(NextRunId, f, 0)
    /\ UNCHANGED <<fileText, status, chunkCount, fileChunks, fileEmbeddings,
                   tasks, faults, batch, call, ret, memoryVars>>

\* prisma.file.findUnique resolves
FindUnique(r) ==
    /\ run[r].pc = "findUnique"
    /\ \/ /\ MayFail
          /\ faults' = faults + 1
          /\ run' = Caught(r)
       \/ /\ run[r].fileId \notin Files
          /\ run' = [run EXCEPT ![r].pc = "returned"]
          /\ UNCHANGED faults
       \/ /\ run[r].fileId \in Files
          /\ run' = [run EXCEPT ![r].pc = "setProcessing"]
          /\ UNCHANGED faults
    /\ UNCHANGED <<fileText, status, chunkCount, fileChunks, fileEmbeddings,
                   tasks, batch, call, ret, memoryVars>>

\* the update to PROCESSING resolves
SetProcessing(r) ==
    /\ run[r].pc = "setProcessing"
    /\ \/ /\ MayFail
          /\ faults' = faults + 1
          /\ run' = Caught(r)
          /\ UNCHANGED status
       \/ /\ status' = [status EXCEPT ![run[r].fileId] = "PROCESSING"]
          /\ run' = [run EXCEPT ![r].pc = "extract"]
          /\ UNCHANGED faults
    /\ UNCHANGED <<fileText, chunkCount, fileChunks, fileEmbeddings,
                   tasks, batch, call, ret, memoryVars>>

\* textExtractionService.extract resolves; then the empty check, the chunking
\* and the first generateBatch call
Extract(r) ==
    /\ run[r].pc = "extract"
    /\ \/ /\ MayFail
          /\ faults' = faults + 1
          /\ run' = Caught(r)
       \/ /\ IsBlank(fileText[run[r].fileId])
          /\ run' = Caught(r)
          /\ UNCHANGED faults
       \/ /\ ~IsBlank(fileText[run[r].fileId])
          /\ run' = [run EXCEPT ![r].i = 0,
                                ![r].pc = IF 0 < Len(Chunks(r))
                                          THEN "generateBatch" ELSE "finalize"]
          /\ UNCHANGED faults
    /\ UNCHANGED <<fileText, status, chunkCount, fileChunks, fileEmbeddings,
                   tasks, batch, call, ret, memoryVars>>

\* the positions of chunks.slice(i, i + batchSize)
BatchOf(r) == {k \in 0..(Len(Chunks(r)) - 1) : run[r].i <= k /\ k < run[r].i + batchSize}

\* embeddingService.generateBatch resolves; Promise.all starts one callback per
\* chunk of the batch, each up to its fileChunk.create
GenerateBatch(r) ==
    /\ run[r].pc = "generateBatch"
    /\ \/ /\ MayFail
          /\ faults' = faults + 1
          /\ run' = Caught(r)
          /\ UNCHANGED tasks
       \/ /\ tasks' = tasks \cup {[run |-> r, k |-> k, op |-> "fileChunk.create"] :
                                    k \in BatchOf(r)}
          /\ run' = [run EXCEPT ![r].pc = "persist"]
          /\ UNCHANGED faults
    /\ UNCHANGED <<fileText, status, chunkCount, fileChunks, fileEmbeddings,
                   batch, call, ret, memoryVars>>

\* one callback of Promise.all rejected: the first rejection rejects Promise.all,
\* the other callbacks go on
Rejected(r) == IF run[r].pc = "persist" THEN Caught(r) ELSE run

\* faulty variant: the for loop goes on as soon as one callback fulfilled
FulfilledAny(r, left) ==
    IF run[r].pc = "persist"
    THEN [run EXCEPT ![r].i = run[r].i + batchSize,
                     ![r].pc = IF run[r].i + batchSize < Len(Chunks(r))
                               THEN "generateBatch" ELSE "finalize"]
    ELSE run

\* one callback fulfilled: when it was the last of the batch, the for loop goes on
\* with the next batch or leaves for the final update
Fulfilled(r, left) ==
    IF run[r].pc = "persist" /\ \A t \in left : t.run # r
    THEN [run EXCEPT ![r].i = run[r].i + batchSize,
                     ![r].pc = IF run[r].i + batchSize < Len(Chunks(r))
                               THEN "generateBatch" ELSE "finalize"]
    ELSE run

\* prisma.fileChunk.create of chunk k resolves
CreateChunk(r, k) ==
    LET t == [run |-> r, k |-> k, op |-> "fileChunk.create"] IN
    /\ t \in tasks
    /\ \/ /\ MayFail
          /\ faults' = faults + 1
          /\ tasks' = tasks \ {t}
          /\ run' = Rejected(r)
          /\ UNCHANGED fileChunks
       \/ /\ fileChunks' = fileChunks \cup
                {[id |-> <<r, k>>, fileId |-> run[r].fileId,
                  chunkIndex |-> Chunks(r)[k + 1].index]}
          /\ tasks' = (tasks \ {t}) \cup
                {[run |-> r, k |-> k, op |-> "fileEmbedding.create"]}
          /\ UNCHANGED <<run, faults>>
    /\ UNCHANGED <<fileText, status, chunkCount, fileEmbeddings, batch, call, ret, memoryVars>>

\* prisma.fileEmbedding.create for chunk k resolves
CreateEmbedding(r, k) ==
    LET t == [run |-> r, k |-> k, op |-> "fileEmbedding.create"] IN
    /\ t \in tasks
    /\ \/ /\ MayFail
          /\ faults' = faults + 1
          /\ tasks' = tasks \ {t}
          /\ run' = Rejected(r)
          /\ UNCHANGED fileEmbeddings
       \/ /\ fileEmbeddings' = fileEmbeddings \cup {[chunkId |-> <<r, k>>]}
          /\ tasks' = tasks \ {t}
          /\ run' = Fulfilled(r, tasks \ {t})
          /\ UNCHANGED faults
    /\ UNCHANGED <<fileText, status, chunkCount, fileChunks, batch, call, ret, memoryVars>>

\* the update to COMPLETED resolves
Finalize(r) ==
    /\ run[r].pc = "finalize"
    /\ \/ /\ MayFail
          /\ faults' = faults + 1
          /\ run' = Caught(r)
          /\ UNCHANGED <<status, chunkCount>>
       \/ /\ status' = [status EXCEPT ![run[r].fileId] = "COMPLETED"]
          /\ chunkCount' = [chunkCount EXCEPT ![run[r].fileId] = Len(Chunks(r))]
          /\ run' = [run EXCEPT ![r].pc = "returned"]
          /\ UNCHANGED faults
    /\ UNCHANGED <<fileText, fileChunks, fileEmbeddings, tasks, batch, call, ret, memoryVars>>

\* the update to FAILED of the catch block resolves or rejects
MarkFailed(r) ==
    /\ run[r].pc = "markFailed"
    /\ \/ /\ run[r].fileId \in Files
          /\ status' = [status EXCEPT ![run[r].fileId] = "FAILED"]
          /\ run' = [run EXCEPT ![r].pc = "returned"]
          /\ UNCHANGED faults
       \/ /\ run[r].fileId \in Files
          /\ MayFail
          /\ faults' = faults + 1
          /\ run' = [run EXCEPT ![r].pc = OnFailedWriteError, ![r].logged = TRUE]
          /\ UNCHANGED status
       \/ /\ run[r].fileId \notin Files
          /\ run' = [run EXCEPT ![r].pc = OnFailedWriteError, ![r].logged = TRUE]
          /\ UNCHANGED <<status, faults>>
    /\ UNCHANGED <<fileText, chunkCount, fileChunks, fileEmbeddings,
                   tasks, batch, call, ret, memoryVars>>

\* the orders in which findMany may return the rows S
Orderings(S) ==
    {q \in [1..Cardinality(S) -> S] : \A a, b \in 1..Cardinality(S) : q[a] = q[b] => a = b}

\* faulty variant: processFile called without await
CallNotAwaited(b) == TRUE

\* await this.processFile(file.id): the loop goes on when that call has returned
CallReturned(b) == run[batch[b].cur].pc = "returned"

\* a caller invokes processSubjectFiles(s): it runs up to its findMany
ProcessSubjectFiles(s) ==
    /\ \E b \in BatchIds :
          /\ batch[b].pc = "idle"
          /\ \A q \in BatchIds : q < b => batch[q].pc # "idle"
          /\ batch' = [batch EXCEPT ![b].pc = "findMany", ![b].subjectId = s]
    /\ UNCHANGED <<fileText, status, chunkCount, fileChunks, fileEmbeddings,
                   run, tasks, faults, call, ret, memoryVars>>

\* prisma.file.findMany resolves with the PENDING files of the subject
FindMany(b) ==
    /\ batch[b].pc = "findMany"
    /\ \/ /\ MayFail
          /\ faults' = faults + 1
          /\ batch' = [batch EXCEPT ![b].pc = "raised"]
       \/ /\ \E files \in Orderings({f \in Files : /\ subjectId(f) = batch[b].subjectId
                                                   /\ status[f] = "PENDING"}) :
                batch' = [batch EXCEPT ![b].pc = "loop", ![b].files = files, ![b].idx = 1]
          /\ UNCHANGED faults
    /\ UNCHANGED <<fileText, status, chunkCount, fileChunks, fileEmbeddings,
                   run, tasks, call, ret, memoryVars>>

\* one turn of for (const file of files): processFile(file.id) is called, or the
\* loop is over and processSubjectFiles returns
NextFile(b) ==
    /\ batch[b].pc = "loop"
    /\ \/ /\ batch[b].idx <= Len(batch[b].files)
          /\ CanStart
          /\ run' = Started(NextRunId, batch[b].files[batch[b].idx], b)
          /\ batch' = [batch EXCEPT ![b].pc = "await", ![b].cur = NextRunId]
       \/ /\ batch[b].idx > Len(batch[b].files)
          /\ batch' = [batch EXCEPT ![b].pc = "returned"]
          /\ UNCHANGED run
    /\ UNCHANGED <<fileText, status, chunkCount, fileChunks, fileEmbeddings,
                   tasks, faults, call, ret, memoryVars>>

\* the awaited processFile call has returned: on to the next file
Resume(b) ==
    /\ batch[b].pc = "await"
    /\ CallReturned(b)
    /\ batch' = [batch EXCEPT ![b].pc = "loop", ![b].idx = batch[b].idx + 1]
    /\ UNCHANGED <<fileText, status, chunkCount, fileChunks, fileEmbeddings,
                   run, tasks, faults, call, ret, memoryVars>>

\* the positions a chunk can have in the chunks of a run
Positions == UNION {0..(Len(ChunkTable[t]) - 1) : t \in Texts}

\* the steps of run r: the awaits of its processFile call and of the callbacks
\* it started
RunStep(r) ==
    \/ FindUnique(r)
    \/ SetProcessing(r)
    \/ Extract(r)
    \/ GenerateBatch(r)
    \/ \E k \in Positions : CreateChunk(r, k)
    \/ \E k \in Positions : CreateEmbedding(r, k)
    \/ Finalize(r)
    \/ MarkFailed(r)

Next ==
    \/ \E f \in FileIds : ProcessFile(f)
    \/ \E r \in RunIds : FindUnique(r)
    \/ \E r \in RunIds : SetProcessing(r)
    \/ \E r \in RunIds : Extract(r)
    \/ \E r \in RunIds : GenerateBatch(r)
    \/ \E r \in RunIds, k \in Positions : CreateChunk(r, k)
    \/ \E r \in RunIds, k \in Positions : CreateEmbedding(r, k)
    \/ \E r \in RunIds : Finalize(r)
    \/ \E r \in RunIds : MarkFailed(r)
    \/ \E s \in Subjects : ProcessSubjectFiles(s)
    \/ \E b \in BatchIds : FindMany(b)
    \/ \E b \in BatchIds : NextFile(b)
    \/ \E b \in BatchIds : Resume(b)

Spec == Init /\ [][Next]_vars

\* every awaited call settles and the event loop runs every continuation
FairSpec == Spec /\ \A r \in RunIds : WF_vars(RunStep(r))

(***************************************************************************)
(* chunkText as a function of its arguments: the call is drawn at the      *)
(* start, one step evaluates it.                                           *)
(***************************************************************************)
ChunkTextCalls ==
    {[op |-> "chunkText", tokens |-> [j \in 1..n |-> j],
      chunkSize |-> size, chunkOverlap |-> overlap] :
        n \in 0..MaxTokens, size \in 0..MaxChunkArg, overlap \in (-1)..MaxChunkArg}

InitChunk ==
    /\ Uploaded([f \in Files |-> <<ParaShort>>])
    /\ call \in ChunkTextCalls
    /\ ret = NoResult
    /\ NoTurns

ChunkTextReturns ==
    /\ call.op = "chunkText"
    /\ ~ret.done
    /\ ret' = [done |-> TRUE,
               chunks |-> chunkText(call.tokens, call.chunkSize, call.chunkOverlap)]
    /\ UNCHANGED <<call, pipelineVars, memoryVars>>

NextChunk == ChunkTextReturns

SpecChunk == InitChunk /\ [][NextChunk]_vars

(***************************************************************************)
(* Retrieval (rag.service.ts).  A number is num / sqrt(sq), which holds    *)
(* every cosine of two integer vectors and every threshold exactly.  The   *)
(* call carries, next to its arguments, the FileEmbedding rows (joined     *)
(* with their chunk) that the table holds when findMany reads it, in the   *)
(* order the database yields them, and the embedding the backend gives for *)
(* the query.                                                              *)
(***************************************************************************)
\* the result has at most this many places in the model's requested topK
MaxTopK == 2

\* topK when the caller gives none
DefaultTopK == 5

Users == {"u1", "u2"}
FileTags == {"EXAM", "EXERCISE", "COURSE"}

\* the File rows retrieval joins to: three files of u1's subject s1 (one without
\* tag) and a file of u2's subject s2
Library == {"f1", "f2", "f3", "f4"}
FileRow(f) ==
    [id |-> f,
     originalName |-> f,
     userId |-> IF f = "f3" THEN "u2" ELSE "u1",
     subjectId |-> IF f = "f3" THEN "s2" ELSE subjectId(f),
     tag |-> CASE f = "f1" -> "EXAM"
               [] f = "f2" -> "COURSE"
               [] f = "f3" -> "EXAM"
               [] OTHER -> "null"]

\* an optional argument: left out, or given with a value
Undefined == [given |-> FALSE]
Given(v) == [given |-> TRUE, value |-> v]

Number(num, sq) == [num |-> num, sq |-> sq]

\* x * sqrt(w) squared, with the sign of x
Signed(x, w) == IF x >= 0 THEN x * x * w ELSE 0 - (x * x * w)

\* a >= b
Geq(a, b) == Signed(a.num, b.sq) >= Signed(b.num, a.sq)

\* a > b
Gt(a, b) == Signed(a.num, b.sq) > Signed(b.num, a.sq)

\* minSimilarity when the caller gives none: 0.3
DefaultMinSimilarity == Number(3, 100)

\* the for loop of cosineSimilarity over the positions of vecA
RECURSIVE SumOver(_, _, _)
SumOver(vecA, vecB, i) ==
    IF i > Len(vecA) THEN 0 ELSE vecA[i] * vecB[i] + SumOver(vecA, vecB, i + 1)

\* dotProduct / (sqrt(normA) * sqrt(normB)), 0 when that is NaN
cosineSimilarity(vecA, vecB) ==
    LET dotProduct == SumOver(vecA, vecB, 1)
        normA == SumOver(vecA, vecA, 1)
        normB == SumOver(vecB, vecB, 1)
    IN  IF normA * normB = 0 THEN Number(0, 1) ELSE Number(dotProduct, normA * normB)

\* faulty variant: the file's subject and tag are not looked at
InScopeOfUser(item, userId, subject, fileTags) ==
    FileRow(item.chunk.fileId).userId = userId

\* the where clause of fileEmbedding.findMany
InScope(item, userId, subject, fileTags) ==
    LET file == FileRow(item.chunk.fileId) IN
    /\ file.userId = userId
    /\ file.subjectId = subject
    /\ (fileTags.given /\ Len(fileTags.value) > 0
            => \E j \in 1..Len(fileTags.value) : file.tag = fileTags.value[j])

\* the .map callback of retrieve
Ranked(item, queryEmbedding) ==
    [content |-> item.chunk.content,
     fileId |-> item.chunk.fileId,
     fileName |-> FileRow(item.chunk.fileId).originalName,
     fileTag |-> FileRow(item.chunk.fileId).tag,
     similarity |-> cosineSimilarity(queryEmbedding, item.vector),
     chunkIndex |-> item.chunk.chunkIndex]

\* faulty variant: the element goes in front of the elements it equals
RECURSIVE InsertedBeforeEquals(_, _)
InsertedBeforeEquals(sorted, c) ==
    IF sorted = <<>>
    THEN <<c>>
    ELSE IF Geq(c.similarity, Head(sorted).similarity)
         THEN <<c>> \o sorted
         ELSE <<Head(sorted)>> \o InsertedBeforeEquals(Tail(sorted), c)

\* one element put into a list sorted by (a, b) => b.similarity - a.similarity,
\* behind the elements it does not precede (Array.prototype.sort is stable)
RECURSIVE Inserted(_, _)
Inserted(sorted, c) ==
    IF sorted = <<>>
    THEN <<c>>
    ELSE IF Gt(c.similarity, Head(sorted).similarity)
         THEN <<c>> \o sorted
         ELSE <<Head(sorted)>> \o Inserted(Tail(sorted), c)

\* .sort((a, b) => b.similarity - a.similarity)
RECURSIVE SortBySimilarity(_, _)
SortBySimilarity(chunks, k) ==
    IF k = 0 THEN <<>> ELSE Inserted(SortBySimilarity(chunks, k - 1), chunks[k])

\* faulty variant: the cut keeps the element at position end too
ArraySliceInclusive(arr, start, end) ==
    SubSeq(arr, start + 1, Min(IF end < 0 THEN Max(Len(arr) + end, 0) ELSE end + 1, Len(arr)))

\* arr.slice(start, end) for start >= 0: a negative end counts from the back
ArraySlice(arr, start, end) ==
    SubSeq(arr, start + 1, Min(IF end < 0 THEN Max(Len(arr) + end, 0) ELSE end, Len(arr)))

\* the sort of the mapped rows, then .filter(similarity >= minSimilarity) and
\* .slice(0, topK)
RankFilterCut(mapped, minSimilarity, topK) ==
    ArraySlice(SelectSeq(SortBySimilarity(mapped, Len(mapped)),
                         LAMBDA chunk : Geq(chunk.similarity, minSimilarity)),
               0, topK)

\* retrieve, from the embedding of the query on
retrieve(userId, queryEmbedding, options, rows) ==
    LET topK == IF options.topK.given THEN options.topK.value ELSE DefaultTopK
        minSimilarity == IF options.minSimilarity.given
                         THEN options.minSimilarity.value ELSE DefaultMinSimilarity
        embeddingsData ==
            SelectSeq(rows, LAMBDA item :
                InScope(item, userId, options.subjectId, options.fileTags))
        mapped == [k \in 1..Len(embeddingsData) |-> Ranked(embeddingsData[k], queryEmbedding)]
        filteredChunks == RankFilterCut(mapped, minSimilarity, topK)
    IN  [chunks |-> filteredChunks, queryEmbedding |-> queryEmbedding]

EmbeddingRow(k, fileId, chunkIndex, vector) ==
    [id |-> k, vector |-> vector,
     chunk |-> [id |-> k, content |-> k, fileId |-> fileId, chunkIndex |-> chunkIndex]]

\* the rows a table may hold: six of u1's subject s1 that score 0.3 or more against
\* the query <<1, 0>> (two of them equal, one just under 0.9), one of a zero
\* vector, and one of u2's subject s2
Catalogue ==
    << EmbeddingRow(1, "f1", 0, <<1, 0>>),
       EmbeddingRow(2, "f1", 1, <<1, 0>>),
       EmbeddingRow(3, "f1", 2, <<1, 1>>),
       EmbeddingRow(4, "f2", 0, <<1, 0>>),
       EmbeddingRow(5, "f2", 1, <<1, 1>>),
       EmbeddingRow(6, "f4", 0, <<2, 1>>),
       EmbeddingRow(7, "f1", 3, <<0, 0>>),
       EmbeddingRow(8, "f3", 0, <<1, 0>>) >>

Reversed(s) == [k \in 1..Len(s) |-> s[Len(s) + 1 - k]]

\* the rows of the catalogue picked by S, in the catalogue's order
Picked(S) == SelectSeq(Catalogue, LAMBDA item : item.id \in S)

Tables ==
    {Picked(S) : S \in SUBSET (1..Len(Catalogue))}
        \cup {Reversed(Picked(S)) : S \in SUBSET (1..Len(Catalogue))}

RetrieveOptions ==
    [subjectId : Subjects,
     fileTags : {Undefined, Given(<<>>), Given(<<"EXAM">>)},
     topK : {Undefined} \cup {Given(k) : k \in 0..MaxTopK},
     minSimilarity : {Undefined, Given(Number(9, 100)), Given(Number(0, 1))}]

RetrieveCalls ==
    [op : {"retrieve"}, userId : Users, queryEmbedding : {<<1, 0>>},
     options : RetrieveOptions, rows : Tables]

InitRetrieve ==
    /\ Uploaded([f \in Files |-> <<ParaShort>>])
    /\ call \in RetrieveCalls
    /\ ret = NoResult
    /\ NoTurns

RetrieveReturns ==
    /\ call.op = "retrieve"
    /\ ~ret.done
    /\ ret' = [done |-> TRUE,
               result |-> retrieve(call.userId, call.queryEmbedding,
                                   call.options, call.rows)]
    /\ UNCHANGED <<call, pipelineVars, memoryVars>>

NextRetrieve == RetrieveReturns

SpecRetrieve == InitRetrieve /\ [][NextRetrieve]_vars

(***************************************************************************)
(* The prompt formatting of the memory store (memory.service.ts).  A       *)
(* string is its length in UTF-16 code units, which is what .length        *)
(* counts; the output is the list of the headers and lines appended, from  *)
(* which trim() takes the leading and the trailing line break.             *)
(***************************************************************************)
\* lists given to formatMemoriesForPrompt have at most this many memories
MaxMemories == 4

MAX_MEMORY_CHARS == 4000

\* categoryLabels[category].length
LabelLength(category) ==
    CASE category = "PREFERENCE" -> 23
      [] category = "FACT" -> 15
      [] category = "PROGRESS" -> 10
      [] category = "CORRECTION" -> 14
      [] category = "GOAL" -> 20
      [] category = "CUSTOM" -> 8

\* `\n**${categoryLabels[category]}**:\n`
CategoryHeader(category) ==
    [kind |-> "header", category |-> category, chars |-> LabelLength(category) + 7]

\* `- ${memory.content}\n`
MemoryLine(memory) ==
    [kind |-> "line", category |-> memory.category, memory |-> memory.id,
     importance |-> memory.importance, chars |-> memory.content + 3]

\* the keys of the Map grouped, in the order of their insertion: a category comes
\* where its first memory comes in the list
RECURSIVE GroupKeys(_, _, _)
GroupKeys(memories, k, keys) ==
    IF k > Len(memories)
    THEN keys
    ELSE GroupKeys(memories, k + 1,
                   IF \E j \in 1..Len(keys) : keys[j] = memories[k].category
                   THEN keys
                   ELSE Append(keys, memories[k].category))

\* faulty variant: each memory is put at the front of its group
GroupedBackwards(memories, category) ==
    Reversed(SelectSeq(memories, LAMBDA m : m.category = category))

\* grouped.get(category): the memories of the category in the order of the list
Grouped(memories, category) == SelectSeq(memories, LAMBDA m : m.category = category)

\* faulty variant: the budget is compared with what is already written
FitsSoFar(charCount, piece) == charCount <= MAX_MEMORY_CHARS

\* the negation of charCount + piece.length > MAX_MEMORY_CHARS
Fits(charCount, piece) == ~(charCount + piece.chars > MAX_MEMORY_CHARS)

\* the inner for loop, from the i-th memory of the category on
RECURSIVE LineLoop(_, _, _)
LineLoop(categoryMemories, i, out) ==
    IF i > Len(categoryMemories)
    THEN out
    ELSE LET line == MemoryLine(categoryMemories[i]) IN
         IF ~Fits(out.charCount, line)
         THEN out
         ELSE LineLoop(categoryMemories, i + 1,
                       [pieces |-> Append(out.pieces, line),
                        charCount |-> out.charCount + line.chars])

\* the outer for loop, from the k-th category of the Map on
RECURSIVE CategoryLoop(_, _, _, _)
CategoryLoop(memories, keys, k, out) ==
    IF k > Len(keys)
    THEN out
    ELSE LET categoryHeader == CategoryHeader(keys[k]) IN
         IF ~Fits(out.charCount, categoryHeader)
         THEN out
         ELSE CategoryLoop(memories, keys, k + 1,
                  LineLoop(Grouped(memories, keys[k]), 1,
                           [pieces |-> Append(out.pieces, categoryHeader),
                            charCount |-> out.charCount + categoryHeader.chars]))

\* formattedContent.trim(): without the line break before the first header and
\* the one after the last piece (the contents have no white space at their ends)
Trimmed(out) ==
    [pieces |-> out.pieces,
     length |-> IF out.pieces = <<>> THEN 0 ELSE out.charCount - 2]

formatMemoriesForPrompt(memories) ==
    IF Len(memories) = 0
    THEN [pieces |-> <<>>, length |-> 0]
    ELSE Trimmed(CategoryLoop(memories, GroupKeys(memories, 1, <<>>), 1,
                              [pieces |-> <<>>, charCount |-> 0]))

\* the lists of memories a call is given: contents of 7, 1960 and 1990 characters
\* in two categories and two importances, in any order
MemoryLists ==
    UNION {[1..n -> [content : {7, 1960, 1990}, category : {"PREFERENCE", "FACT"},
                     importance : {3, 8}]] : n \in 0..MaxMemories}

\* the list with the position of each memory as its id
Identified(list) ==
    [k \in 1..Len(list) |->
        [id |-> k, content |-> list[k].content, category |-> list[k].category,
         importance |-> list[k].importance]]

InitFormat ==
    /\ Uploaded([f \in Files |-> <<ParaShort>>])
    /\ call \in {[op |-> "formatMemoriesForPrompt", memories |-> Identified(list)] :
                    list \in MemoryLists}
    /\ ret = NoResult
    /\ NoTurns

FormatReturns ==
    /\ call.op = "formatMemoriesForPrompt"
    /\ ~ret.done
    /\ ret' = [done |-> TRUE, result |-> formatMemoriesForPrompt(call.memories)]
    /\ UNCHANGED <<call, pipelineVars, memoryVars>>

NextFormat == FormatReturns

SpecFormat == InitFormat /\ [][NextFormat]_vars

(***************************************************************************)
(* The validation of extracted memories (ai.service.ts).  The call carries *)
(* what the reasoning backend answers: a failure, a text that is no JSON,  *)
(* or an array of candidates; a content is its length.                     *)
(***************************************************************************)
\* the backend proposes at most this many candidates
MaxCandidates == 4

\* at most this many candidates are returned
MaxPerExtraction == 3

\* the categories the filter accepts
MemoryCategories == <<"PREFERENCE", "FACT", "PROGRESS", "CORRECTION", "GOAL", "CUSTOM">>

\* the callback of memories.filter
Accepted(m) ==
    /\ m.content # 0
    /\ m.content > 5
    /\ m.content < 500
    /\ \E j \in 1..Len(MemoryCategories) : MemoryCategories[j] = m.category
    /\ m.importance >= 1
    /\ m.importance <= 10

\* the try block of extractMemories and its catch
extractMemories(response) ==
    IF response.kind \in {"throws", "notJson"}
    THEN <<>>
    ELSE ArraySlice(SelectSeq(response.memories, Accepted), 0, MaxPerExtraction)

Candidate(content, category, importance) ==
    [content |-> content, category |-> category, importance |-> importance]

\* the candidates a backend may propose: at the edges of the content length, of
\* the importance, and with a category that is none of the six
Candidates ==
    { Candidate(6, "FACT", 1), Candidate(499, "GOAL", 10),
      Candidate(5, "FACT", 5), Candidate(500, "PREFERENCE", 5),
      Candidate(4, "FACT", 5), Candidate(501, "FACT", 5),
      Candidate(20, "FACT", 0), Candidate(20, "CUSTOM", 11),
      Candidate(20, "REMINDER", 5) }

Responses ==
    {[kind |-> "throws"], [kind |-> "notJson"]}
        \cup {[kind |-> "array", memories |-> list] :
                list \in UNION {[1..n -> Candidates] : n \in 0..MaxCandidates}}

InitExtract ==
    /\ Uploaded([f \in Files |-> <<ParaShort>>])
    /\ call \in {[op |-> "extractMemories", response |-> r] : r \in Responses}
    /\ ret = NoResult
    /\ NoTurns

ExtractReturns ==
    /\ call.op = "extractMemories"
    /\ ~ret.done
    /\ ret' = [done |-> TRUE, result |-> extractMemories(call.response)]
    /\ UNCHANGED <<call, pipelineVars, memoryVars>>

NextExtract == ExtractReturns

SpecExtract == InitExtract /\ [][NextExtract]_vars

(***************************************************************************)
(* generateBatch (embedding.service.ts) as a function of the texts, of the *)
(* credential and of what the embedding backend answers.  A vector is      *)
(* named by the number of the text it embeds.                              *)
(***************************************************************************)
\* texts given to one call of generateBatch
MaxTexts == 2
\* items of the data array the backend answers with
MaxItems == 3

\* the elements data.data may hold: an item with an embedding, an item without
\* one, null
PayloadItems ==
    {[kind |-> "item", embedding |-> Given(v)] : v \in 1..MaxTexts}
        \cup {[kind |-> "item", embedding |-> Undefined], [kind |-> "null"]}

\* what the backend may answer: the fetch rejects, a status that is not a
\* success, a body that is not JSON, a body without data, with a data that is
\* no array, with a data array
BackendAnswers ==
    {[kind |-> k] : k \in {"rejects", "status", "notJson", "noData", "dataNoArray"}}
        \cup {[kind |-> "array", data |-> d] :
                d \in UNION {[1..n -> PayloadItems] : n \in 0..MaxItems}}

InternalError == [error |-> "internal"]

\* data.data.map((item) => item.embedding): one element per item of the answer,
\* the embedding of the item or undefined; the read throws on a null item
Embeddings(data) == [i \in 1..Len(data) |-> data[i].embedding]

\* generateBatch(texts): no credential, or anything thrown in the try block,
\* gives AppError.internal; else the mapped data array is returned as it is
generateBatch(texts, apiKey, answer) ==
    IF ~apiKey THEN InternalError
    ELSE IF answer.kind # "array" THEN InternalError
    ELSE IF \E i \in 1..Len(answer.data) : answer.data[i].kind = "null"
         THEN InternalError
    ELSE [error |-> "none", vectors |-> Embeddings(answer.data)]

EmbedCalls ==
    {[op |-> "generateBatch", texts |-> [i \in 1..n |-> i], apiKey |-> key, answer |-> a] :
        n \in 0..MaxTexts, key \in BOOLEAN, a \in BackendAnswers}

InitEmbed ==
    /\ Uploaded([f \in Files |-> <<ParaShort>>])
    /\ call \in EmbedCalls
    /\ ret = NoResult
    /\ NoTurns

GenerateBatchReturns ==
    /\ call.op = "generateBatch"
    /\ ~ret.done
    /\ ret' = [done |-> TRUE,
               result |-> generateBatch(call.texts, call.apiKey, call.answer)]
    /\ UNCHANGED <<call, pipelineVars, memoryVars>>

NextEmbed == GenerateBatchReturns

SpecEmbed == InitEmbed /\ [][NextEmbed]_vars

(***************************************************************************)
(* The memory store (memory.service.ts) over the SubjectMemory table.  An  *)
(* operation is one step; ret holds what the last operation gave back.     *)
(***************************************************************************)
\* the clock runs from 0 to this
MaxClock == 2
\* SubjectMemory rows created in one behaviour
MaxMemoryRows == 2

\* importance when create is given none
DefaultImportance == 5

\* the Subject rows: u1 owns s1 and u2 owns s2
Owner(subject) == IF subject = "s1" THEN "u1" ELSE "u2"

\* subjectService.verifyOwnership(userId, subjectId) finds the subject
verifyOwnership(userId, subject) == Owner(subject) = userId

\* a nullable date
Null == [null |-> TRUE]
At(t) == [null |-> FALSE, at |-> t]

MemoryIds == 1..MaxMemoryRows

\* the row prisma.subjectMemory.create makes of its data; isActive and createdAt
\* take the defaults of the column
Row(id, subject, content, category, importance, expiresAt) ==
    [id |-> id, subjectId |-> subject, content |-> content, category |-> category,
     importance |-> importance, isActive |-> TRUE, expiresAt |-> expiresAt,
     createdAt |-> now]

CreateInputs ==
    [content : {7}, category : {"FACT"},
     importance : {Undefined, Given(8)}, expiresAt : {Undefined, Given(1)}]

\* the lists createMany is given
ExtractedLists ==
    {<<>>, <<Candidate(7, "FACT", 8)>>,
     <<Candidate(7, "FACT", 8), Candidate(7, "GOAL", 5)>>}

UpdateInputs ==
    {[importance |-> 8], [isActive |-> FALSE], [isActive |-> TRUE],
     [expiresAt |-> Null], [expiresAt |-> At(1)]}

\* prisma.subjectMemory.findUnique({ where: { id } })
Found(id) == {m \in subjectMemory : m.id = id}

\* the row with the fields of data written over it
Written(m, data) ==
    [field \in DOMAIN m |-> IF field \in DOMAIN data THEN data[field] ELSE m[field]]

Failed(op, userId, target, error) ==
    [done |-> TRUE, op |-> op, userId |-> userId, target |-> target, error |-> error]

Succeeded(op, userId, target, value) ==
    [done |-> TRUE, op |-> op, userId |-> userId, target |-> target,
     error |-> "none", value |-> value]

\* faulty variant: the expiry is not looked at
ListedWhateverExpiry(m, subject) == m.subjectId = subject /\ m.isActive

\* the where clause of getSubjectMemories
Listed(m, subject) ==
    /\ m.subjectId = subject
    /\ m.isActive
    /\ (m.expiresAt.null \/ (~m.expiresAt.null /\ m.expiresAt.at > now))

\* orderBy importance desc, then createdAt desc
InOrder(list) ==
    \A i, j \in 1..Len(list) :
        i < j => \/ list[i].importance > list[j].importance
                 \/ /\ list[i].importance = list[j].importance
                    /\ list[i].createdAt >= list[j].createdAt

GetSubjectMemories(userId, subject) ==
    /\ \/ /\ ~verifyOwnership(userId, subject)
          /\ ret' = Failed("getSubjectMemories", userId, subject, "notFound")
       \/ /\ verifyOwnership(userId, subject)
          /\ \E list \in Orderings({m \in subjectMemory : Listed(m, subject)}) :
                /\ InOrder(list)
                /\ ret' = Succeeded("getSubjectMemories", userId, subject, list)
    /\ UNCHANGED <<call, pipelineVars, memoryVars>>

Create(userId, subject, input) ==
    /\ nextMemoryId <= MaxMemoryRows
    /\ \/ /\ ~verifyOwnership(userId, subject)
          /\ ret' = Failed("create", userId, subject, "notFound")
          /\ UNCHANGED <<subjectMemory, nextMemoryId>>
       \/ /\ verifyOwnership(userId, subject)
          /\ LET m == Row(nextMemoryId, subject, input.content, input.category,
                          IF input.importance.given
                          THEN input.importance.value ELSE DefaultImportance,
                          IF input.expiresAt.given
                          THEN At(input.expiresAt.value) ELSE Null)
             IN  /\ subjectMemory' = subjectMemory \cup {m}
                 /\ ret' = Succeeded("create", userId, subject, m)
          /\ nextMemoryId' = nextMemoryId + 1
    /\ UNCHANGED <<call, pipelineVars, now, turn, extraction>>

\* the rows createMany writes
ManyRows(subject, list) ==
    {Row(nextMemoryId + k - 1, subject, list[k].content, list[k].category,
         list[k].importance, Null) : k \in 1..Len(list)}

CreateMany(userId, subject, list) ==
    /\ nextMemoryId + Len(list) - 1 <= MaxMemoryRows
    /\ \/ /\ Len(list) = 0
          /\ ret' = Succeeded("createMany", userId, subject, 0)
          /\ UNCHANGED <<subjectMemory, nextMemoryId>>
       \/ /\ Len(list) # 0
          /\ ~verifyOwnership(userId, subject)
          /\ ret' = Failed("createMany", userId, subject, "notFound")
          /\ UNCHANGED <<subjectMemory, nextMemoryId>>
       \/ /\ Len(list) # 0
          /\ verifyOwnership(userId, subject)
          /\ subjectMemory' = subjectMemory \cup ManyRows(subject, list)
          /\ nextMemoryId' = nextMemoryId + Len(list)
          /\ ret' = Succeeded("createMany", userId, subject, Len(list))
    /\ UNCHANGED <<call, pipelineVars, now, turn, extraction>>

\* faulty variant: whoever asks may write
AllowedAnyone(m, userId) == TRUE

\* the negation of memory.subject.userId !== userId
Allowed(m, userId) == Owner(m.subjectId) = userId

\* update, and deactivate which is update with isActive false
UpdateAs(op, userId, id, input) ==
    /\ \/ /\ Found(id) = {}
          /\ ret' = Failed(op, userId, id, "notFound")
          /\ UNCHANGED subjectMemory
       \/ \E m \in Found(id) :
             \/ /\ ~Allowed(m, userId)
                /\ ret' = Failed(op, userId, id, "forbidden")
                /\ UNCHANGED subjectMemory
             \/ /\ Allowed(m, userId)
                /\ subjectMemory' = (subjectMemory \ {m}) \cup {Written(m, input)}
                /\ ret' = Succeeded(op, userId, id, Written(m, input))
    /\ UNCHANGED <<call, pipelineVars, now, nextMemoryId, turn, extraction>>

Update(userId, id, input) == UpdateAs("update", userId, id, input)

Deactivate(userId, id) == UpdateAs("deactivate", userId, id, [isActive |-> FALSE])

Delete(userId, id) ==
    /\ \/ /\ Found(id) = {}
          /\ ret' = Failed("delete", userId, id, "notFound")
          /\ UNCHANGED subjectMemory
       \/ \E m \in Found(id) :
             \/ /\ ~Allowed(m, userId)
                /\ ret' = Failed("delete", userId, id, "forbidden")
                /\ UNCHANGED subjectMemory
             \/ /\ Allowed(m, userId)
                /\ subjectMemory' = subjectMemory \ {m}
                /\ ret' = Succeeded("delete", userId, id, 0)
    /\ UNCHANGED <<call, pipelineVars, now, nextMemoryId, turn, extraction>>

\* deleteMany where expiresAt < now
CleanupExpired ==
    LET expired == {m \in subjectMemory : ~m.expiresAt.null /\ m.expiresAt.at < now} IN
    /\ subjectMemory' = subjectMemory \ expired
    /\ ret' = Succeeded("cleanupExpired", "none", 0, Cardinality(expired))
    /\ UNCHANGED <<call, pipelineVars, now, nextMemoryId, turn, extraction>>

\* time passes
Tick ==
    /\ now < MaxClock
    /\ now' = now + 1
    /\ UNCHANGED <<call, ret, pipelineVars, subjectMemory, nextMemoryId, turn, extraction>>

InitMemory ==
    /\ Uploaded([f \in Files |-> <<ParaShort>>])
    /\ call = NoCall
    /\ ret = NoResult
    /\ NoTurns

NextMemory ==
    \/ \E userId \in Users, subject \in Subjects :
          \/ GetSubjectMemories(userId, subject)
          \/ \E input \in CreateInputs : Create(userId, subject, input)
          \/ \E list \in ExtractedLists : CreateMany(userId, subject, list)
    \/ \E userId \in Users, id \in MemoryIds :
          \/ \E input \in UpdateInputs : Update(userId, id, input)
          \/ Deactivate(userId, id)
          \/ Delete(userId, id)
    \/ CleanupExpired
    \/ Tick

SpecMemory == InitMemory /\ [][NextMemory]_vars

(***************************************************************************)
(* The message flows (message.service.ts, rag.controller.ts) and the       *)
(* memory extraction they start.  One request of u1 in a conversation of   *)
(* the subject s1 is followed; every await is a step, and so are the       *)
(* synchronous statements that send the response and that call             *)
(* extractAndSaveMemories.  turn.sent is what was written to the response. *)
(***************************************************************************)
\* content events chatStream writes in one request
MaxDeltas == 1

\* the awaits of sendMessageAndGetResponse and of streamMessageAndGetResponse in
\* the order of the code, then the statements that follow the last of them
Steps(mode) ==
    IF mode = "json"
    THEN <<"findFirst", "createUser", "retrieve", "memories", "history", "chat",
           "createAssistant", "startExtraction", "respond", "done">>
    ELSE <<"findFirst", "createUser", "retrieve", "memories", "history", "chatStream",
           "createAssistant", "sendFinal", "startExtraction", "done">>

Awaits == {"findFirst", "createUser", "retrieve", "memories", "history", "chat",
           "chatStream", "createAssistant"}

\* the step after pc
After(mode, pc) ==
    LET k == CHOOSE i \in 1..Len(Steps(mode)) : Steps(mode)[i] = pc
    IN  Steps(mode)[k + 1]

\* the request handler is called
Request(mode) ==
    /\ turn.pc = "idle"
    /\ turn' = [turn EXCEPT !.mode = mode, !.pc = "findFirst"]
    /\ UNCHANGED <<call, ret, pipelineVars, subjectMemory, now, nextMemoryId, extraction>>

\* faulty variant: a write puts its events in front of what was sent before
WritePrepended(t, events) ==
    IF t.closed
    THEN [t EXCEPT !.late = events \o t.late]
    ELSE [t EXCEPT !.sent = events \o t.sent]

\* res.write(...) of each of the events: the code calls it whether the consumer
\* is still connected or not; on a closed connection the runtime drops the
\* data without raising, and turn.late keeps what was written in vain
Write(t, events) ==
    IF t.closed
    THEN [t EXCEPT !.late = t.late \o events]
    ELSE [t EXCEPT !.sent = t.sent \o events]

\* what the flow has written once the await at pc resolved: the stream flow sends
\* the user message and the sources when the memories are read
Written1(t) ==
    IF t.mode = "stream" /\ t.pc = "memories"
    THEN Write(t, <<"userMessage", "sources">>)
    ELSE t

\* the flow after the await at pc rejected: in the try block of the stream flow
\* the catch ends the response (chatStream having written its error event), any
\* other await lets the error reach the error handler of the server
Thrown(t) ==
    IF t.mode = "stream" /\ t.pc \in {"chatStream", "createAssistant"}
    THEN [Write(t, IF t.pc = "chatStream" THEN <<"error">> ELSE <<>>)
            EXCEPT !.pc = "done", !.ended = TRUE, !.outcome = "error"]
    ELSE [Write(t, <<"errorResponse">>)
            EXCEPT !.pc = "done", !.ended = TRUE, !.outcome = "error"]

\* an awaited call of the flow settles
Proceed ==
    /\ turn.pc \in Awaits
    /\ \/ /\ MayFail
          /\ faults' = faults + 1
          /\ turn' = Thrown(turn)
       \/ /\ turn' = [Written1(turn) EXCEPT !.pc = After(turn.mode, turn.pc)]
          /\ UNCHANGED faults
    /\ UNCHANGED <<call, ret, fileText, status, chunkCount, fileChunks, fileEmbeddings,
                   run, tasks, batch, subjectMemory, now, nextMemoryId, extraction>>

\* the lines the backend streams: deltas, then the line [DONE]; a line comes
\* whole in one read, or cut in two by the boundary between two reads
BackendLines(stream) ==
    IF \E i \in 1..Len(stream) : stream[i].line = "[DONE]"
    THEN {}
    ELSE {[line |-> l, whole |-> w] :
            l \in {"[DONE]"} \cup
                  (IF Cardinality({i \in 1..Len(stream) : stream[i].line = "delta"})
                        < MaxDeltas
                   THEN {"delta"} ELSE {}),
            w \in BOOLEAN}

\* what the loop over chunk.split('\n') writes for a line: the two halves of a
\* cut line are each tested alone, neither is [DONE] nor parses as JSON, and
\* both are skipped
Relayed(l) ==
    IF ~l.whole THEN <<>>
    ELSE IF l.line = "[DONE]" THEN <<"[DONE]">>
    ELSE <<"content">>

\* chatStream reads a line of the backend's stream and relays it to the response
Delta ==
    /\ turn.pc = "chatStream"
    /\ \E l \in BackendLines(turn.stream) :
          turn' = [Write(turn, Relayed(l)) EXCEPT !.stream = turn.stream \o <<l>>]
    /\ UNCHANGED <<call, ret, pipelineVars, subjectMemory, now, nextMemoryId, extraction>>

\* the consumer closes its connection while the stream flow is sending it the
\* events of the response
Close ==
    /\ turn.mode = "stream"
    /\ turn.sent # <<>> /\ ~turn.ended
    /\ ~turn.closed
    /\ turn' = [turn EXCEPT !.closed = TRUE]
    /\ UNCHANGED <<call, ret, pipelineVars, subjectMemory, now, nextMemoryId, extraction>>

\* res.write of the saved assistant message, then res.end()
SendFinal ==
    /\ turn.pc = "sendFinal"
    /\ turn' = [Write(turn, <<"assistantMessage">>)
                  EXCEPT !.pc = After(turn.mode, turn.pc),
                         !.ended = TRUE, !.outcome = "success"]
    /\ UNCHANGED <<call, ret, pipelineVars, subjectMemory, now, nextMemoryId, extraction>>

\* this.extractAndSaveMemories(...).catch(...): the call runs up to its first
\* await and the flow goes on
StartExtraction ==
    /\ turn.pc = "startExtraction"
    /\ turn' = [turn EXCEPT !.pc = After(turn.mode, turn.pc)]
    /\ extraction' = [extraction EXCEPT !.pc = "reading", !.before = subjectMemory]
    /\ UNCHANGED <<call, ret, pipelineVars, subjectMemory, now, nextMemoryId>>

\* sendMessageAndGetResponse has returned and the controller's res.json sends
\* the result
Respond ==
    /\ turn.pc = "respond"
    /\ turn' = [Write(turn, <<"json">>)
                  EXCEPT !.pc = After(turn.mode, turn.pc),
                         !.ended = TRUE, !.outcome = "success"]
    /\ UNCHANGED <<call, ret, pipelineVars, subjectMemory, now, nextMemoryId, extraction>>

\* the catch of extractAndSaveMemories: the error is logged
Abandoned(e) == [e EXCEPT !.pc = "done", !.failed = TRUE]

\* the continuations of the extraction run when the flow that called it has
\* run to its end, the controller's continuation included
Resumes(pc) == extraction.pc = pc /\ turn.pc = "done"

\* getExistingMemoryContents settles
ReadExisting ==
    /\ Resumes("reading")
    /\ \/ /\ MayFail
          /\ faults' = faults + 1
          /\ extraction' = Abandoned(extraction)
       \/ /\ extraction' = [extraction EXCEPT !.pc = "asking"]
          /\ UNCHANGED faults
    /\ UNCHANGED <<call, ret, fileText, status, chunkCount, fileChunks, fileEmbeddings,
                   run, tasks, batch, subjectMemory, now, nextMemoryId, turn>>

\* what the backend may answer to the extraction prompt
TurnResponses ==
    {[kind |-> "throws"], [kind |-> "notJson"],
     [kind |-> "array", memories |-> <<>>],
     [kind |-> "array", memories |-> <<Candidate(20, "FACT", 0)>>],
     [kind |-> "array", memories |-> <<Candidate(20, "FACT", 8)>>]}

\* aiService.extractMemories settles: nothing extracted ends the extraction,
\* anything else is given to createMany
AskBackend ==
    /\ Resumes("asking")
    /\ \E response \in TurnResponses :
          LET extracted == extractMemories(response) IN
          /\ \/ /\ response.kind = "array"
                /\ UNCHANGED faults
             \/ /\ response.kind # "array"
                /\ MayFail
                /\ faults' = faults + 1
          /\ extraction' =
                IF Len(extracted) > 0
                THEN [extraction EXCEPT !.pc = "verifying", !.extracted = extracted]
                ELSE [extraction EXCEPT !.pc = "done",
                                        !.failed = (response.kind # "array")]
    /\ UNCHANGED <<call, ret, fileText, status, chunkCount, fileChunks, fileEmbeddings,
                   run, tasks, batch, subjectMemory, now, nextMemoryId, turn>>

\* the verifyOwnership of createMany settles
VerifyOwner ==
    /\ Resumes("verifying")
    /\ \/ /\ MayFail
          /\ faults' = faults + 1
          /\ extraction' = Abandoned(extraction)
       \/ /\ verifyOwnership("u1", "s1")
          /\ extraction' = [extraction EXCEPT !.pc = "persisting"]
          /\ UNCHANGED faults
    /\ UNCHANGED <<call, ret, fileText, status, chunkCount, fileChunks, fileEmbeddings,
                   run, tasks, batch, subjectMemory, now, nextMemoryId, turn>>

\* faulty variant: a createMany that fails has written its first row
WrittenOnFailureFirst(rows) == {m \in rows : m.id = nextMemoryId}

\* a createMany that fails has written nothing
WrittenOnFailure(rows) == {}

\* prisma.subjectMemory.createMany settles
Persist ==
    /\ Resumes("persisting")
    /\ nextMemoryId + Len(extraction.extracted) - 1 <= MaxMemoryRows
    /\ \/ /\ MayFail
          /\ faults' = faults + 1
          /\ subjectMemory' =
                subjectMemory \cup WrittenOnFailure(ManyRows("s1", extraction.extracted))
          /\ extraction' = Abandoned(extraction)
          /\ UNCHANGED nextMemoryId
       \/ /\ subjectMemory' = subjectMemory \cup ManyRows("s1", extraction.extracted)
          /\ nextMemoryId' = nextMemoryId + Len(extraction.extracted)
          /\ extraction' = [extraction EXCEPT !.pc = "done"]
          /\ UNCHANGED faults
    /\ UNCHANGED <<call, ret, fileText, status, chunkCount, fileChunks, fileEmbeddings,
                   run, tasks, batch, now, turn>>

\* the subject has no memory yet, or one
InitTurn ==
    /\ Uploaded([f \in Files |-> <<ParaShort>>])
    /\ call = NoCall
    /\ ret = NoResult
    /\ now \in 0..MaxClock
    /\ \/ subjectMemory = {} /\ nextMemoryId = 1
       \/ /\ subjectMemory = {[id |-> 1, subjectId |-> "s1", content |-> 7,
                               category |-> "GOAL", importance |-> 8, isActive |-> TRUE,
                               expiresAt |-> Null, createdAt |-> 0]}
          /\ nextMemoryId = 2
    /\ turn = IdleTurn
    /\ extraction = IdleExtraction

NextTurn ==
    \/ \E mode \in {"json", "stream"} : Request(mode)
    \/ Proceed
    \/ Delta
    \/ Close
    \/ SendFinal
    \/ StartExtraction
    \/ Respond
    \/ ReadExisting
    \/ AskBackend
    \/ VerifyOwner
    \/ Persist

SpecTurn == InitTurn /\ [][NextTurn]_vars

(***************************************************************************)
(* Retrieval while the pipeline runs: one retrieve of u1 in the subject s1, *)
(* as the message flows call it, at any moment of the runs of processFile.  *)
(* It reads the FileEmbedding rows that are stored at that moment.          *)
(***************************************************************************)
\* the order in which findMany loads two rows: by run, then by position
LoadedFirst(S) ==
    CHOOSE e \in S : \A d \in S :
        \/ e.chunkId[1] < d.chunkId[1]
        \/ e.chunkId[1] = d.chunkId[1] /\ e.chunkId[2] <= d.chunkId[2]

\* prisma.fileEmbedding.findMany with its chunk included; every stored vector
\* is one that scores 1 against the query
RECURSIVE Loaded(_)
Loaded(S) ==
    IF S = {}
    THEN <<>>
    ELSE LET e == LoadedFirst(S)
             c == CHOOSE c \in fileChunks : c.id = e.chunkId
         IN  <<EmbeddingRow(e.chunkId, c.fileId, c.chunkIndex, <<1, 0>>)>>
                 \o Loaded(S \ {e})

\* ragService.retrieve(userId, content, {subjectId, topK: 5}) returns
Search ==
    /\ ~ret.done
    /\ ret' = [done |-> TRUE,
               result |-> retrieve("u1", <<1, 0>>,
                                   [subjectId |-> "s1", fileTags |-> Undefined,
                                    topK |-> Given(DefaultTopK),
                                    minSimilarity |-> Undefined],
                                   Loaded(fileEmbeddings))]
    /\ UNCHANGED <<call, pipelineVars, memoryVars>>

\* the pipeline is followed up to the moment of the retrieve
NextSearch ==
    \/ ~ret.done /\ \E f \in FileIds : ProcessFile(f)
    \/ ~ret.done /\ \E r \in RunIds : FindUnique(r)
    \/ ~ret.done /\ \E r \in RunIds : SetProcessing(r)
    \/ ~ret.done /\ \E r \in RunIds : Extract(r)
    \/ ~ret.done /\ \E r \in RunIds : GenerateBatch(r)
    \/ ~ret.done /\ \E r \in RunIds, k \in Positions : CreateChunk(r, k)
    \/ ~ret.done /\ \E r \in RunIds, k \in Positions : CreateEmbedding(r, k)
    \/ ~ret.done /\ \E r \in RunIds : Finalize(r)
    \/ ~ret.done /\ \E r \in RunIds : MarkFailed(r)
    \/ ~ret.done /\ \E s \in Subjects : ProcessSubjectFiles(s)
    \/ ~ret.done /\ \E b \in BatchIds : FindMany(b)
    \/ ~ret.done /\ \E b \in BatchIds : NextFile(b)
    \/ ~ret.done /\ \E b \in BatchIds : Resume(b)
    \/ Search

SpecSearch == Init /\ [][NextSearch]_vars

(***************************************************************************)
(* What the claims speak of.                                               *)
(***************************************************************************)
\* run r is between its call and its return
InFlight(r) == run[r].pc \notin {"idle", "returned", "raised"}

\* this step is the one in which run r returns to its caller
Returns(r) == run[r].pc # "returned" /\ run'[r].pc = "returned"

\* run r went through to the COMPLETED write and returned
Completed(r) ==
    run[r].pc = "returned" /\ ~run[r].caught /\ run[r].fileId \in Files

\* the extraction of file f yields empty or whitespace-only text
YieldsNoText(f) == \A k \in 1..Len(fileText[f]) : fileText[f][k].ws

\* the Fragment rows run r persisted
RowsOf(r) == {c \in fileChunks : c.id[1] = r}

\* the Fragment rows of file f
FragmentsOf(f) == {c \in fileChunks : c.fileId = f}

\* C1: every change of a file's processStatus is PENDING->PROCESSING,
\* PROCESSING->COMPLETED or PROCESSING->FAILED, or leaves COMPLETED or FAILED for
\* PROCESSING, the write with which a new run starts.
C1_StatusTransitions ==
    [][\A f \in Files :
          status'[f] # status[f] =>
             \/ status[f] = "PENDING" /\ status'[f] = "PROCESSING"
             \/ status[f] = "PROCESSING" /\ status'[f] \in {"COMPLETED", "FAILED"}
             \/ status[f] \in {"COMPLETED", "FAILED"} /\ status'[f] = "PROCESSING"]_vars

\* C2 as stated: a run on a file whose extraction yields no text returns with the
\* file FAILED, and such a file is never COMPLETED.
C2_NoTextEndsFailed ==
    /\ [][\A r \in RunIds :
            Returns(r) /\ run[r].fileId \in Files /\ YieldsNoText(run[r].fileId)
               => status'[run[r].fileId] = "FAILED"]_vars
    /\ [](\A f \in Files : YieldsNoText(f) => status[f] # "COMPLETED")

\* C2 amended: a run on a file whose extraction yields no text returns with the
\* file FAILED unless its own write of FAILED was rejected, and such a file is
\* never COMPLETED.
C2_NoTextEndsFailedIfWritten ==
    /\ [][\A r \in RunIds :
            Returns(r) /\ run[r].fileId \in Files /\ YieldsNoText(run[r].fileId)
                       /\ ~run'[r].logged
               => status'[run[r].fileId] = "FAILED"]_vars
    /\ [](\A f \in Files : YieldsNoText(f) => status[f] # "COMPLETED")

\* a run reached the empty check with no call having failed, and returned after
\* its write of FAILED
C2_Witness ==
    \E r \in RunIds :
        /\ run[r].pc = "returned" /\ run[r].caught /\ ~run[r].logged
        /\ run[r].fileId \in Files /\ YieldsNoText(run[r].fileId)
        /\ faults = 0
        /\ status[run[r].fileId] = "FAILED"

\* C3: a run that failed (and whose write of FAILED went through) returns with
\* the file FAILED and its fragment count zero, the count read as the recorded
\* chunkCount or as the number of Fragment rows.
C3_FailedRunLeavesNothing ==
    [][\A r \in RunIds :
          Returns(r) /\ run'[r].caught /\ ~run'[r].logged /\ run[r].fileId \in Files
             => /\ status'[run[r].fileId] = "FAILED"
                /\ \/ chunkCount'[run[r].fileId] = 0
                   \/ FragmentsOf(run[r].fileId)' = {}]_vars

\* C4: no processFile call raises to its caller.
C4_NeverRaises == \A r \in RunIds : run[r].pc # "raised"

\* the write of FAILED itself was rejected, and the call returned
C4_Witness == \E r \in RunIds : run[r].pc = "returned" /\ run[r].logged

\* C5 as stated: a run on an existing file returns with the file COMPLETED or
\* FAILED, never PROCESSING.
C5_EndsTerminal ==
    [][\A r \in RunIds :
          Returns(r) /\ run[r].fileId \in Files
             => status'[run[r].fileId] \in {"COMPLETED", "FAILED"}]_vars

\* C5 amended: every run on an existing file returns, and when it returns the file
\* is COMPLETED or FAILED unless the run's own write of FAILED was rejected.
C5_EndsTerminalIfWritten ==
    /\ [][\A r \in RunIds :
            Returns(r) /\ run[r].fileId \in Files /\ ~run'[r].logged
               => status'[run[r].fileId] \in {"COMPLETED", "FAILED"}]_vars
    /\ \A r \in RunIds : InFlight(r) ~> run[r].pc = "returned"

\* one run ended with the file COMPLETED and a later one with it FAILED
C5_Witness ==
    \E r, q \in RunIds :
        /\ Completed(r)
        /\ run[q].pc = "returned" /\ run[q].caught /\ ~run[q].logged
        /\ run[q].fileId \in Files /\ status[run[q].fileId] = "FAILED"

\* C6: after a run completed, the chunkIndex values of the Fragments it persisted
\* are 0..n-1 with no gap and no duplicate, in the order of the text.
C6_ContiguousIndex ==
    \A r \in RunIds :
        Completed(r) =>
            /\ {c.chunkIndex : c \in RowsOf(r)} = 0..(Len(Chunks(r)) - 1)
            /\ \A c, d \in RowsOf(r) : c.chunkIndex = d.chunkIndex => c = d
            /\ \A c, d \in RowsOf(r) : c.id[2] < d.id[2] => c.chunkIndex < d.chunkIndex

\* no run and no write is in flight
Quiescent == tasks = {} /\ \A r \in RunIds : ~InFlight(r)

\* C7: every Fragment has exactly one FragmentVector and every FragmentVector
\* exactly one Fragment; looked at when no write is in flight, that is after the
\* runs, failed ones included.
C7_OneToOne ==
    Quiescent =>
        /\ \A c \in fileChunks :
              Cardinality({e \in fileEmbeddings : e.chunkId = c.id}) = 1
        /\ \A e \in fileEmbeddings :
              Cardinality({c \in fileChunks : c.id = e.chunkId}) = 1

\* C8: the Fragment and FragmentVector writes in flight for one file are all of
\* one run.
C8_SingleWriter ==
    \A t, u \in tasks : run[t.run].fileId = run[u.run].fileId => t.run = u.run

\* C9: of the processFile calls one processSubjectFiles call made, at most one is
\* outstanding.
C9_Sequential ==
    \A b \in BatchIds :
        Cardinality({r \in RunIds : run[r].caller = b /\ InFlight(r)}) <= 1

\* the first file of the call ended FAILED and the second is being processed
C9_Witness ==
    \E b \in BatchIds : \E r, q \in RunIds :
        /\ run[r].caller = b /\ run[r].pc = "returned" /\ run[r].caught
        /\ run[q].caller = b /\ InFlight(q)

\* the chunks' token spans put end to end, each chunk after the first without the
\* chunkOverlap tokens it repeats
RECURSIVE Rebuilt(_, _, _)
Rebuilt(chunks, k, chunkOverlap) ==
    IF k > Len(chunks)
    THEN <<>>
    ELSE (IF k = 1
          THEN chunks[k].content
          ELSE SubSeq(chunks[k].content, Max(chunkOverlap, 0) + 1, Len(chunks[k].content)))
         \o Rebuilt(chunks, k + 1, chunkOverlap)

\* C10 as stated: whatever chunkSize >= 1 and chunkOverlap >= 0, the chunks of
\* chunkText rebuild the whole token sequence.
C10_Rebuilds ==
    ret.done /\ call.chunkSize >= 1 /\ call.chunkOverlap >= 0
        => Rebuilt(ret.chunks, 1, call.chunkOverlap) = call.tokens

\* C10 amended: for 0 <= chunkOverlap < chunkSize the chunks of chunkText rebuild
\* the whole token sequence.
C10_RebuildsWhenOverlapSmaller ==
    ret.done /\ 0 <= call.chunkOverlap /\ call.chunkOverlap < call.chunkSize
        => Rebuilt(ret.chunks, 1, call.chunkOverlap) = call.tokens

\* three or more overlapping windows, the last one cut short by the end
C10_Witness ==
    /\ ret.done
    /\ 0 < call.chunkOverlap /\ call.chunkOverlap < call.chunkSize
    /\ Len(ret.chunks) >= 3
    /\ Len(ret.chunks[Len(ret.chunks)].content) < call.chunkSize
    /\ Rebuilt(ret.chunks, 1, call.chunkOverlap) = call.tokens

\* C11 as stated: whatever the text, chunkText called with chunkOverlap >=
\* chunkSize returns exactly one chunk.
C11_OneChunk ==
    ret.done /\ call.chunkOverlap >= call.chunkSize => Len(ret.chunks) = 1

\* C11 amended: chunkText called with chunkOverlap >= chunkSize ends after its
\* first window; it returns that window as its only chunk when the text has a
\* token, and no chunk when the text has none.
C11_OneChunkUnlessEmpty ==
    ret.done /\ call.chunkOverlap >= call.chunkSize =>
        IF Len(call.tokens) = 0
        THEN ret.chunks = <<>>
        ELSE /\ Len(ret.chunks) = 1
             /\ ret.chunks[1].index = 0
             /\ ret.chunks[1].content =
                    SubSeq(call.tokens, 1, Min(call.chunkSize, Len(call.tokens)))

\* chunkOverlap >= chunkSize >= 1 on a text longer than one window: one chunk, the
\* first window, and the rest of the text in no chunk
C11_Witness ==
    /\ ret.done
    /\ call.chunkOverlap >= call.chunkSize /\ call.chunkSize >= 1
    /\ Len(call.tokens) > call.chunkSize
    /\ Len(ret.chunks) = 1
    /\ Len(ret.chunks[1].content) = call.chunkSize

\* the topK and the minSimilarity a retrieve call asks for
AskedTopK == IF call.options.topK.given THEN call.options.topK.value ELSE DefaultTopK
AskedMinSimilarity ==
    IF call.options.minSimilarity.given
    THEN call.options.minSimilarity.value ELSE Number(3, 100)

\* the rows of the table that lie in the call's scope and score at least the
\* asked minimum against the query
Eligible ==
    {k \in 1..Len(call.rows) :
        /\ FileRow(call.rows[k].chunk.fileId).userId = call.userId
        /\ FileRow(call.rows[k].chunk.fileId).subjectId = call.options.subjectId
        /\ Geq(cosineSimilarity(call.queryEmbedding, call.rows[k].vector),
               AskedMinSimilarity)}

\* C12: retrieve returns at most topK fragments (5 when none is asked) and each
\* has similarity >= minSimilarity (0.3 when none is asked), whatever the
\* table holds and whatever topK >= 0 and minSimilarity are asked.
C12_AtMostTopKAboveMin ==
    ret.done /\ call.op = "retrieve" =>
        /\ Len(ret.result.chunks) <= AskedTopK
        /\ \A i \in 1..Len(ret.result.chunks) :
              Geq(ret.result.chunks[i].similarity, AskedMinSimilarity)

\* no topK and no minSimilarity asked, six rows of the subject score 0.3 or
\* more and one scores less: five are returned
C12_Witness ==
    /\ ret.done /\ call.op = "retrieve"
    /\ ~call.options.topK.given /\ ~call.options.minSimilarity.given
    /\ Cardinality(Eligible) > DefaultTopK
    /\ \E k \in 1..Len(call.rows) :
          /\ FileRow(call.rows[k].chunk.fileId).subjectId = call.options.subjectId
          /\ k \notin Eligible
    /\ Len(ret.result.chunks) = DefaultTopK

\* C13: every fragment retrieve returns is of a file of the asked subject (and
\* of the asking user), and of a file whose tag is in fileTags when fileTags is
\* given and not empty.
C13_OnlyInScope ==
    ret.done /\ call.op = "retrieve" =>
        \A i \in 1..Len(ret.result.chunks) :
            LET file == FileRow(ret.result.chunks[i].fileId) IN
            /\ file.subjectId = call.options.subjectId
            /\ file.userId = call.userId
            /\ (call.options.fileTags.given /\ call.options.fileTags.value # <<>>
                    => \E j \in 1..Len(call.options.fileTags.value) :
                          file.tag = call.options.fileTags.value[j])

\* fileTags [EXAM] asked in subject s1 while the table also holds a row of another
\* tag, a row of a file without tag and a row of the other subject, all scoring the
\* minimum or more: only rows of the EXAM file of s1 come back
C13_Witness ==
    /\ ret.done /\ call.op = "retrieve"
    /\ call.userId = "u1" /\ call.options.subjectId = "s1"
    /\ call.options.fileTags = Given(<<"EXAM">>)
    /\ call.options.minSimilarity = Given(Number(0, 1))
    /\ \A f \in Library : \E k \in 1..Len(call.rows) : call.rows[k].chunk.fileId = f
    /\ Len(ret.result.chunks) >= 1
    /\ \A i \in 1..Len(ret.result.chunks) : ret.result.chunks[i].fileId = "f1"

\* C15: whatever the list, the string formatMemoriesForPrompt returns has at most
\* 4,000 characters.
C15_WithinBudget ==
    ret.done /\ call.op = "formatMemoriesForPrompt" => ret.result.length <= 4000

\* a memory of the list is left out for the budget and the string is longer than
\* 3,900 characters
C15_Witness ==
    /\ ret.done /\ call.op = "formatMemoriesForPrompt"
    /\ \E k \in 1..Len(call.memories) :
          \A i \in 1..Len(ret.result.pieces) :
              ret.result.pieces[i].kind = "line" => ret.result.pieces[i].memory # k
    /\ ret.result.length > 3900
    /\ ret.result.length <= 4000

\* the positions of the output's lines of one category
LinesOf(category) ==
    {i \in 1..Len(ret.result.pieces) :
        /\ ret.result.pieces[i].kind = "line"
        /\ ret.result.pieces[i].category = category}

\* in each category group of the output the importances never rise
GroupsDescend ==
    \A category \in {"PREFERENCE", "FACT"} :
        \A i, j \in LinesOf(category) :
            i < j => ret.result.pieces[i].importance >= ret.result.pieces[j].importance

\* C16 as stated: whatever the list, the lines of each category group of the
\* output are in descending order of importance.
C16_GroupsDescend ==
    ret.done /\ call.op = "formatMemoriesForPrompt" => GroupsDescend

\* the memories of the list are in descending order of importance, as
\* getSubjectMemories returns them
GivenDescending ==
    \A i, j \in 1..Len(call.memories) :
        i < j => call.memories[i].importance >= call.memories[j].importance

\* C16 amended: for every list that is in descending order of importance, the
\* lines of each category group of the output are in descending order of
\* importance and in the order of the list.
C16_GroupsDescendIfGiven ==
    ret.done /\ call.op = "formatMemoriesForPrompt" /\ GivenDescending =>
        /\ GroupsDescend
        /\ \A category \in {"PREFERENCE", "FACT"} :
              \A i, j \in LinesOf(category) :
                  i < j => ret.result.pieces[i].memory < ret.result.pieces[j].memory

\* a list in descending order with the two categories interleaved: each group of
\* the output has a line of importance 8 followed by one of importance 3
C16_Witness ==
    /\ ret.done /\ call.op = "formatMemoriesForPrompt" /\ GivenDescending
    /\ \A category \in {"PREFERENCE", "FACT"} :
          \E i, j \in LinesOf(category) :
              /\ i < j
              /\ ret.result.pieces[i].importance = 8
              /\ ret.result.pieces[j].importance = 3

\* a candidate is valid: content of 5 to 500 characters, one of the six
\* categories, importance 1 to 10
Valid(m) ==
    /\ m.content >= 5 /\ m.content <= 500
    /\ m.category \in {"PREFERENCE", "FACT", "PROGRESS", "CORRECTION", "GOAL", "CUSTOM"}
    /\ m.importance >= 1 /\ m.importance <= 10

\* the candidates the backend proposed (none when the call or the parsing failed)
Proposed == IF call.response.kind = "array" THEN call.response.memories ELSE <<>>

\* C17: extractMemories returns the first three valid candidates, in the order
\* the backend proposed them, and a candidate of importance 0 or 11 or of an
\* unknown category is never returned.
C17_FirstThreeValid ==
    ret.done /\ call.op = "extractMemories" =>
        LET valid == SelectSeq(Proposed, Valid) IN
        /\ ret.result = SubSeq(valid, 1, Min(3, Len(valid)))
        /\ \A i \in 1..Len(ret.result) :
              /\ ret.result[i].importance \notin {0, 11}
              /\ ret.result[i].category # "REMINDER"

\* the memories of a subject with active = true and no expiry or an expiry later
\* than now
ActiveOf(subject) ==
    {m \in subjectMemory :
        /\ m.subjectId = subject
        /\ m.isActive = TRUE
        /\ (m.expiresAt = Null \/ (m.expiresAt # Null /\ m.expiresAt.at > now))}

\* C14: whatever creations, updates, deactivations, deletions, expiry sweeps and
\* passing of time came before, getSubjectMemories called by the owner returns
\* each active, unexpired memory of the subject once and nothing else, ordered
\* by importance descending and then by creation time descending.
C14_ListsActiveInOrder ==
    [][ret' # ret /\ ret'.op = "getSubjectMemories" /\ ret'.error = "none" =>
            LET list == ret'.value IN
            /\ {list[i] : i \in 1..Len(list)} = ActiveOf(ret'.target)
            /\ Len(list) = Cardinality(ActiveOf(ret'.target))
            /\ \A i \in 1..(Len(list) - 1) :
                  \/ list[i].importance > list[i + 1].importance
                  \/ /\ list[i].importance = list[i + 1].importance
                     /\ list[i].createdAt >= list[i + 1].createdAt]_vars

\* the subject has two memories: one is returned, the other is active but its
\* expiry is the present instant
C14_Witness ==
    /\ ret.done /\ call = NoCall
    /\ ret.op = "getSubjectMemories" /\ ret.error = "none"
    /\ Len(ret.value) = 1
    /\ ret.value[1] \in subjectMemory
    /\ \E m \in subjectMemory :
          /\ m.subjectId = ret.target /\ m.isActive
          /\ m.expiresAt = At(now)
          /\ m.importance > ret.value[1].importance

\* the operation whose result this step puts in ret was asked by a user who
\* does not own the subject it names, or the subject of the memory it names
ByStranger ==
    /\ ret' # ret
    /\ \/ /\ ret'.op \in {"create", "createMany"}
          /\ Owner(ret'.target) # ret'.userId
       \/ /\ ret'.op \in {"update", "deactivate", "delete"}
          /\ \E m \in subjectMemory :
                m.id = ret'.target /\ Owner(m.subjectId) # ret'.userId

\* C20 as stated: update, deactivate, delete, create and createMany asked by a
\* user who does not own the subject fail with an error and leave the table as
\* it was.
C20_StrangerFails ==
    [][ByStranger => ret'.error # "none" /\ subjectMemory' = subjectMemory]_vars

\* C20 amended: update, deactivate, delete and create asked by a user who does
\* not own the subject, and createMany of a list that is not empty, fail with
\* an error and leave the table as it was; createMany of an empty list returns
\* 0 without an error and leaves the table as it was.
C20_StrangerChangesNothing ==
    [][ByStranger =>
            /\ subjectMemory' = subjectMemory
            /\ nextMemoryId' = nextMemoryId
            /\ \/ ret'.error \in {"notFound", "forbidden"}
               \/ ret'.op = "createMany" /\ ret'.value = 0]_vars

\* u2 asked to delete a memory of u1's subject s1: forbidden, and the memory is
\* still there
C20_Witness ==
    /\ ret.done /\ call = NoCall
    /\ ret.op = "delete" /\ ret.userId = "u2" /\ ret.error = "forbidden"
    /\ \E m \in subjectMemory : m.id = ret.target /\ m.subjectId = "s1"

\* C18: in the non-streaming flow and in the streaming flow, the step that
\* starts the memory extraction of a turn finds the response of that turn sent.
C18_StartedAfterDelivery ==
    [][extraction.pc = "idle" /\ extraction'.pc # "idle" =>
            turn.ended /\ turn.outcome = "success"]_vars

\* C19: when a step of the memory extraction fails (the read of the existing
\* memories, the reasoning call or the parsing of its answer, the ownership
\* check, the write), the response of the turn is the successful one that was
\* sent, that step leaves it as it is, and the table holds what it held when
\* the extraction started.
C19_FailureChangesNothing ==
    [][extraction'.failed =>
            /\ turn' = turn
            /\ turn.ended /\ turn.outcome = "success"
            /\ subjectMemory' = extraction'.before]_vars

\* the write of createMany failed in the non-streaming flow: the result was
\* sent and the one memory the subject had is all the table holds
C19_Witness ==
    /\ extraction.pc = "done" /\ extraction.failed
    /\ Len(extraction.extracted) > 0
    /\ turn.mode = "json" /\ turn.sent = <<"json">> /\ turn.outcome = "success"
    /\ subjectMemory # {} /\ subjectMemory = extraction.before
    /\ faults = 1

\* the places of an event in what the response was sent
PlacesOf(event) == {i \in 1..Len(turn.sent) : turn.sent[i] = event}

\* the sources come once and before every content increment, the completion
\* marker comes at most once and after the sources and every content increment
SourcesContentMarker ==
    /\ Cardinality(PlacesOf("sources")) <= 1
    /\ Cardinality(PlacesOf("[DONE]")) <= 1
    /\ \A i \in PlacesOf("content") \cup PlacesOf("[DONE]") :
          \E j \in PlacesOf("sources") : j < i
    /\ \A i \in PlacesOf("content") : \A j \in PlacesOf("[DONE]") : i < j

C22_NoWriteAfterClose == turn.closed => turn.late = <<>>

\* C23: generateBatch(texts) fails with an Internal error or returns one vector
\* for each text: whatever the backend answers, not fewer and not more vectors
\* than texts, and none of them missing.
C23_OneVectorPerText ==
    ret.done /\ call.op = "generateBatch" =>
        \/ ret.result.error = "internal"
        \/ /\ Len(ret.result.vectors) = Len(call.texts)
           /\ \A i \in 1..Len(ret.result.vectors) : ret.result.vectors[i].given

\* the step issues a generateBatch call of run r
Issues(r) ==
    /\ run'[r].pc = "generateBatch"
    /\ run[r].pc # "generateBatch" \/ run'[r].i # run[r].i

\* the Fragment and the FragmentVector of position k of run r are stored
Stored(r, k, chunks, embeddings) ==
    /\ \E c \in chunks : c.id = <<r, k>>
    /\ \E e \in embeddings : e.chunkId = <<r, k>>

\* C24: within one processFile run the batches hold at most batchSize fragments
\* and are taken in increasing fragment order, one generateBatch call each: the
\* first call is for position 0, every later one for the position batchSize
\* after that of the call before, and it is issued when every Fragment and
\* FragmentVector write of the batches before it has completed and none of the
\* run is in flight; the writes in flight are those of the batch of the last
\* call.
C24_BatchesInSequence ==
    [][\A r \in RunIds :
          /\ Issues(r) =>
                /\ run'[r].i = IF run[r].pc = "persist" THEN run[r].i + batchSize ELSE 0
                /\ run'[r].i < Len(ChunkTable[fileText'[run'[r].fileId]])
                /\ \A t \in tasks' : t.run # r
                /\ \A k \in 0..(run'[r].i - 1) : Stored(r, k, fileChunks', fileEmbeddings')
          /\ \A t \in tasks' :
                t.run = r /\ run'[r].pc = "persist" =>
                    run'[r].i <= t.k /\ t.k < run'[r].i + batchSize]_vars

\* the second generateBatch call of a run is out: the two fragments of the
\* first batch and their vectors are stored and no write of the run is in flight
C24_Witness ==
    \E r \in RunIds :
        /\ run[r].pc = "generateBatch" /\ run[r].i = batchSize
        /\ \A k \in 0..(batchSize - 1) : Stored(r, k, fileChunks, fileEmbeddings)
        /\ \A t \in tasks : t.run # r

\* the tokens [from, to) of the text whose tokens are numbered from 1
Window(from, to) == [j \in 1..(to - from) |-> from + j]

\* the chunks are the windows of chunkSize tokens that start every
\* chunkSize - chunkOverlap tokens before the end of the n tokens, and no other
Windows(chunks, n, chunkSize, chunkOverlap) ==
    LET step == chunkSize - chunkOverlap IN
    /\ Len(chunks) = Cardinality({k \in 0..n : k * step < n})
    /\ \A k \in 0..(Len(chunks) - 1) :
          /\ chunks[k + 1].index = k
          /\ chunks[k + 1].content = Window(k * step, Min(k * step + chunkSize, n))
          /\ Len(chunks[k + 1].content) <= chunkSize

\* C25: for chunkOverlap < chunkSize and a text of N tokens, chunkText returns
\* for every k >= 0 with k * (chunkSize - chunkOverlap) < N, and for no other k,
\* a chunk of index k that holds the tokens from k * (chunkSize - chunkOverlap)
\* up to, not including, min(k * (chunkSize - chunkOverlap) + chunkSize, N), so
\* at most chunkSize tokens; 1200 tokens with 500 and 50 give [0,500),
\* [450,950), [900,1200).
C25_Windows ==
    ret.done /\ call.op = "chunkText" /\ call.chunkOverlap < call.chunkSize =>
        /\ Windows(ret.chunks, Len(call.tokens), call.chunkSize, call.chunkOverlap)
        /\ LET chunks == chunkText(Window(0, 1200), PipelineChunkSize,
                                   PipelineChunkOverlap)
           IN  /\ Len(chunks) = 3
               /\ chunks[1].content = Window(0, 500)
               /\ chunks[2].content = Window(450, 950)
               /\ chunks[3].content = Window(900, 1200)

\* six tokens, chunkSize 3, chunkOverlap 1: the windows [0,3), [2,5), [4,6)
C25_Witness ==
    /\ ret.done /\ call.op = "chunkText"
    /\ Len(call.tokens) = 6 /\ call.chunkSize = 3 /\ call.chunkOverlap = 1
    /\ Len(ret.chunks) = 3
    /\ ret.chunks[3].content = <<5, 6>>

\* the place in the table of the row a returned fragment was made of
LoadedAt(chunk) == CHOOSE k \in 1..Len(call.rows) : call.rows[k].chunk.content = chunk.content

\* a fragment of similarity a loaded at place i is ranked before one of
\* similarity b loaded at place j: a higher score, or the same score and loaded
\* earlier
RankedBefore(a, i, b, j) == Gt(a, b) \/ (~Gt(b, a) /\ i < j)

\* the places of the rows in the scope of the call that score the asked minimum
\* or more
AboveMin ==
    {k \in 1..Len(call.rows) :
        /\ InScope(call.rows[k], call.userId, call.options.subjectId, call.options.fileTags)
        /\ Geq(cosineSimilarity(call.queryEmbedding, call.rows[k].vector),
               AskedMinSimilarity)}

\* C26: the fragments retrieve returns are in descending similarity order, equal
\* scores in the order the rows were loaded; they are the first topK of the
\* candidates that score minSimilarity or more, so the threshold is applied
\* before the cut; candidates scoring 0.95, 0.6, 0.91 with minSimilarity 0.9
\* give 0.95, 0.91.
C26_RankedThenCut ==
    ret.done /\ call.op = "retrieve" =>
        LET chunks == ret.result.chunks
            returned == {LoadedAt(chunks[i]) : i \in 1..Len(chunks)}
        IN  /\ \A i, j \in 1..Len(chunks) :
                  i < j => RankedBefore(chunks[i].similarity, LoadedAt(chunks[i]),
                                        chunks[j].similarity, LoadedAt(chunks[j]))
            /\ returned \subseteq AboveMin
            /\ Len(chunks) = Min(AskedTopK, Cardinality(AboveMin))
            /\ \A i \in 1..Len(chunks) : \A k \in AboveMin \ returned :
                  RankedBefore(chunks[i].similarity, LoadedAt(chunks[i]),
                               cosineSimilarity(call.queryEmbedding, call.rows[k].vector), k)
            /\ LET scored == [k \in 1..3 |->
                                [content |-> k,
                                 similarity |-> Number(<<95, 60, 91>>[k], 10000)]]
                   kept == RankFilterCut(scored, Number(9, 100), DefaultTopK)
               IN  [k \in 1..Len(kept) |-> kept[k].content] = <<1, 3>>

\* topK 2 asked of a table loaded in reverse, in which three rows score 1 and
\* one scores less: the two of the three that were loaded first come back, in
\* the order they were loaded
C26_Witness ==
    /\ ret.done /\ call.op = "retrieve"
    /\ call.options.topK = Given(2)
    /\ Len(call.rows) >= 4 /\ call.rows[1].id > call.rows[2].id
    /\ Cardinality(AboveMin) >= 4
    /\ Len(ret.result.chunks) = 2
    /\ ~Gt(ret.result.chunks[1].similarity, ret.result.chunks[2].similarity)
    /\ ret.result.chunks[1].content > ret.result.chunks[2].content
    /\ \E k \in AboveMin :
          /\ Gt(ret.result.chunks[2].similarity,
                cosineSimilarity(call.queryEmbedding, call.rows[k].vector))
    /\ \E k \in AboveMin :
          /\ call.rows[k].chunk.content \notin
                {ret.result.chunks[1].content, ret.result.chunks[2].content}
          /\ ~Gt(ret.result.chunks[2].similarity,
                 cosineSimilarity(call.queryEmbedding, call.rows[k].vector))

\* a memory of the category was given and no line of it is in the pieces: its
\* line was rejected for the budget, or a line before it in its group was
Rejects(pieces, category) ==
    \E k \in 1..Len(call.memories) :
        /\ call.memories[k].category = category
        /\ \A j \in 1..Len(pieces) :
              ~(pieces[j].kind = "line" /\ pieces[j].memory = call.memories[k].id)

\* C27: formatMemoriesForPrompt stops at the first header or line that would
\* take the count over MAX_MEMORY_CHARS: when a line of a group was rejected,
\* nothing of a later group is in the output.
C27_NothingAfterRejection ==
    ret.done /\ call.op = "formatMemoriesForPrompt" =>
        LET pieces == ret.result.pieces IN
        \A i \in 1..Len(pieces) :
            pieces[i].kind = "header" /\ Rejects(pieces, pieces[i].category) =>
                \A j \in (i + 1)..Len(pieces) : pieces[j].category = pieces[i].category

\* the categories of the headers of the pieces, in their order, those of the
\* set only
HeadersAmong(pieces, categories) ==
    LET headers == SelectSeq(pieces, LAMBDA piece :
                       piece.kind = "header" /\ piece.category \in categories)
    IN  [k \in 1..Len(headers) |-> headers[k].category]

\* the categories that have a header in the pieces
Headed(pieces) ==
    {pieces[k].category : k \in {j \in 1..Len(pieces) : pieces[j].kind = "header"}}

\* C28: the groups of the output of formatMemoriesForPrompt come in one order of
\* the categories whatever the order of the list (the groups written for the
\* list and for the list read backwards are in the same order), and a header
\* is written only for a group of which a line is written.
C28_FixedOrderNoBareHeader ==
    ret.done /\ call.op = "formatMemoriesForPrompt" =>
        LET pieces == ret.result.pieces
            backwards == formatMemoriesForPrompt(Reversed(call.memories)).pieces
            both == Headed(pieces) \cap Headed(backwards)
        IN  /\ HeadersAmong(pieces, both) = HeadersAmong(backwards, both)
            /\ \A i \in 1..Len(pieces) :
                  pieces[i].kind = "header" =>
                      \E j \in 1..Len(pieces) :
                          pieces[j].kind = "line" /\ pieces[j].category = pieces[i].category

\* C29: whenever a file is COMPLETED its chunkCount is the number of Fragment
\* rows stored for it, also after processFile ran again on a processed file.
C29_CountIsRows ==
    \A f \in Files :
        status[f] = "COMPLETED" =>
            chunkCount[f] = Cardinality({c \in fileChunks : c.fileId = f})

\* C30: at any moment retrieve returns only fragments of files that are
\* COMPLETED, never one stored by a run that is still PROCESSING or that ended
\* FAILED after it stored some batches.
C30_OnlyCompleted ==
    ret.done =>
        \A i \in 1..Len(ret.result.chunks) :
            status[ret.result.chunks[i].fileId] = "COMPLETED"

====
